---- MODULE Spec2Model ----
(***************************************************************************)
(* Model of kramer's sector map (src/mapping.rs): Domain, Stage,           *)
(* MapCluster and MapFile with update, get_stage, get_clusters, defrag     *)
(* and MapCluster::subdivide.                                              *)
(***************************************************************************)
EXTENDS Integers, Sequences, FiniteSets, TLC

\* ---------------------------------------------------------------- bounds
\* Highest sector index of a map read from a map file.
MaxSector == 3
\* Highest ForIsolation level that occurs (the level is a u8 in the code).
MaxLevel == 1
\* MapFile::update is not taken once the map holds this many clusters.
MaxClusters == 3
\* Longest cluster list handed to get_stage / get_clusters.
MaxQueryLen == 3
\* get_stage / get_clusters see unit clusters [s, s+1) with s below this.
MaxQuerySector == 2
\* Highest sector index of a cluster handed to subdivide.
MaxSubEnd == 8
\* Largest cluster_len handed to subdivide.
MaxGroupLen == 9

VARIABLES
    origin,         \* "new": MapFile::new, "file": MapFile::try_from(file)
    domain,         \* MapFile.domain
    map,            \* MapFile.map
    pc,             \* "run", "panic" (unwrap of None) or "hang" (endless loop)
    op,             \* the last method called
    old_map,        \* MapFile.map when that method was called
    new_cluster,    \* argument of the last MapFile::update
    stage,          \* argument of the last MapFile::get_clusters
    received,       \* return value of the last MapFile::get_clusters
    recover_stage,  \* return value of the last MapFile::get_stage
    cluster,        \* receiver of the last MapCluster::subdivide
    cluster_len,    \* argument of the last MapCluster::subdivide
    clusters,       \* return value of the last MapCluster::subdivide
    config,         \* Args: sector_size, cluster_length, brute_passes
    sector_size,    \* MapFile.sector_size
    input_len,      \* length of the input in bytes (get_stream_length)
    overflow_checks,\* TRUE: the build panics on integer overflow, FALSE: wraps
    buf_capacity,   \* Recover.buf_capacity
    phase,          \* "none", "loaded" (main has the map), "constructed"
                    \* (Recover::new returned), "returned" (run returned)
    is_finished,    \* local of Recover::run
    untested,       \* local of Recover::copy_untested
    level           \* argument of the last Recover::copy_isolate

recover_vars == <<config, sector_size, input_len, overflow_checks,
                  buf_capacity, phase, is_finished, untested, level>>

vars == <<origin, domain, map, pc, op, old_map, new_cluster, stage, received,
          recover_stage, cluster, cluster_len, clusters, config, sector_size,
          input_len, overflow_checks, buf_capacity, phase, is_finished,
          untested, level>>

\* ------------------------------------------------------------ data types
Untested == [tag |-> "Untested", level |-> 0]
ForIsolation(n) == [tag |-> "ForIsolation", level |-> n]
Damaged == [tag |-> "Damaged", level |-> 0]

Stages == {Untested, Damaged} \cup {ForIsolation(n) : n \in 0..MaxLevel}

\* Position of the variant in the enum declaration.
StageRank(s) ==
    CASE s.tag = "Untested" -> 0
      [] s.tag = "ForIsolation" -> 1
      [] s.tag = "Damaged" -> 2

\* #[derive(PartialOrd)]: by variant first, then by the payload.
StageLt(a, b) ==
    \/ StageRank(a) < StageRank(b)
    \/ StageRank(a) = StageRank(b) /\ a.level < b.level

Domain(s, e) == [start |-> s, end |-> e]
DomainDefault == Domain(0, 1)
DomainLen(d) == d.end - d.start

MapCluster(d, st) == [domain |-> d, stage |-> st]
MapClusterDefault == MapCluster(DomainDefault, Untested)

MapFileDefault == [domain |-> DomainDefault, map |-> <<MapClusterDefault>>]
MapFileNew == MapFileDefault

\* -------------------------------------------------------- MapFile::update
\* What one iteration of the loop over self.map pushes onto new_map.
UpdateCluster(nc, mc) ==
    IF nc.domain.start < mc.domain.start /\ nc.domain.end < mc.domain.end
    THEN <<[mc EXCEPT !.domain.start = nc.domain.end]>>
    ELSE IF nc.domain.end < mc.domain.end
    THEN LET domain_end == mc.domain.end
             cropped == [mc EXCEPT !.domain.end = nc.domain.start]
         IN  <<cropped>> \o
             (IF nc.domain.end < cropped.domain.end
              THEN <<MapCluster(Domain(nc.domain.end, domain_end), cropped.stage)>>
              ELSE <<>>)
    ELSE <<mc>>

RECURSIVE UpdateFrom(_, _, _)
UpdateFrom(m, i, nc) ==
    IF i > Len(m) THEN <<>>
    ELSE UpdateCluster(nc, m[i]) \o UpdateFrom(m, i + 1, nc)

update(m, nc) == <<nc>> \o UpdateFrom(m, 1, nc)

\* ----------------------------------------------------- MapFile::get_stage
\* StageArm with the comparison turned round: keeps the highest level.
StageArmGreater(rs, cs) ==
    IF cs.tag = "ForIsolation" /\ (rs = Damaged \/ StageLt(rs, cs))
    THEN cs
    ELSE rs

\* The ForIsolation and Damaged arms of the match: the new recover_stage.
StageArm(rs, cs) ==
    IF cs.tag = "ForIsolation" /\ (rs = Damaged \/ StageLt(cs, rs))
    THEN cs
    ELSE rs

RECURSIVE GetStageFrom(_, _, _)
GetStageFrom(m, i, rs) ==
    IF i > Len(m) THEN rs
    ELSE IF m[i].stage.tag = "Untested" THEN Untested
    ELSE GetStageFrom(m, i + 1, StageArm(rs, m[i].stage))

get_stage(m) == GetStageFrom(m, 1, Damaged)

\* -------------------------------------------------- MapFile::get_clusters
\* get_clusters comparing the variant only, not the isolation level.
get_clusters_by_tag(m, st) == SelectSeq(m, LAMBDA mc : mc.stage.tag = st.tag)

get_clusters(m, st) == SelectSeq(m, LAMBDA mc : mc.stage = st)

\* --------------------------------------------------- MapCluster::subdivide
\* The number of full groups rounded up instead of down.
SubdivideCountCeil(domain_len, cl) == (domain_len + cl - 1) \div cl

\* (domain_len as f64 / cluster_len as f64).floor() as usize: both lengths
\* are far below 2^53, so the quotient is the integer quotient.
SubdivideCount(domain_len, cl) == domain_len \div cl

subdivide(c, cl) ==
    LET n == SubdivideCount(DomainLen(c.domain), cl)
        full == [i \in 1..n |->
                   MapCluster(Domain(c.domain.start + (i - 1) * cl,
                                     c.domain.start + i * cl), c.stage)]
        start == c.domain.start + n * cl
    IN  Append(full, MapCluster(Domain(start, c.domain.end), c.stage))

\* -------------------------------------------------------- MapFile::defrag
\* self.map.iter().find(|c| c.domain.start == key): the index of the first
\* cluster in list order that starts at key, 0 for None.
RECURSIVE FindFrom(_, _, _)
FindFrom(m, i, key) ==
    IF i > Len(m) THEN 0
    ELSE IF m[i].domain.start = key THEN i
    ELSE FindFrom(m, i + 1, key)

Find(m, key) == FindFrom(m, 1, key)

\* The inner loop `while stage_common`.  Each iteration is determined by
\* start_cluster alone, so a run that has not ended after Len(m) + 1
\* iterations revisits a cluster and never ends.
RECURSIVE DefragRun(_, _, _, _)
DefragRun(m, run_stage, start_cluster, fuel) ==
    LET end_cluster == start_cluster
        idx == Find(m, end_cluster.domain.end)
    IN  IF idx = 0
        THEN [status |-> "panic", end_cluster |-> end_cluster,
              start_cluster |-> start_cluster]
        ELSE IF run_stage # m[idx].stage
        THEN [status |-> "ok", end_cluster |-> end_cluster,
              start_cluster |-> m[idx]]
        ELSE IF fuel = 0
        THEN [status |-> "hang", end_cluster |-> end_cluster,
              start_cluster |-> start_cluster]
        ELSE DefragRun(m, run_stage, m[idx], fuel - 1)

\* The outer loop `while pos < self.domain.end`.  Each iteration is
\* determined by pos, which is 0 or the end of a cluster.
RECURSIVE DefragWalk(_, _, _, _, _, _)
DefragWalk(m, dom, pos, start_cluster, new_map, fuel) ==
    IF ~(pos < dom.end) THEN [status |-> "ok", map |-> new_map]
    ELSE IF fuel = 0 THEN [status |-> "hang", map |-> m]
    ELSE LET r == DefragRun(m, start_cluster.stage, start_cluster, Len(m))
         IN  IF r.status # "ok" THEN [status |-> r.status, map |-> m]
             ELSE LET merged == [start_cluster EXCEPT
                                   !.domain.end = r.end_cluster.domain.end]
                  IN  DefragWalk(m, dom, merged.domain.end, r.start_cluster,
                                 Append(new_map, merged), fuel - 1)

\* status "ok": the call returns and self.map is the map field;
\* "panic": an unwrap() met None; "hang": a loop never ends.  In the last
\* two cases self.map is never assigned.
defrag(m, dom) ==
    LET pos == 0
        idx == Find(m, pos)
    IN  IF idx = 0 THEN [status |-> "panic", map |-> m]
        ELSE DefragWalk(m, dom, pos, m[idx], <<>>, Len(m) + 1)

\* The map of tests::test_defrag and the list the test expects.
TestDefragDomain == Domain(0, 8)
TestDefragStages ==
    <<Untested, Untested, Untested, ForIsolation(0), ForIsolation(0),
      ForIsolation(1), ForIsolation(0), Damaged>>
TestDefragMap ==
    [i \in 1..8 |-> MapCluster(Domain(i - 1, i), TestDefragStages[i])]
TestDefragExpected ==
    <<MapCluster(Domain(0, 3), Untested),
      MapCluster(Domain(3, 5), ForIsolation(0)),
      MapCluster(Domain(5, 6), ForIsolation(1)),
      MapCluster(Domain(6, 7), ForIsolation(0)),
      MapCluster(Domain(7, 8), Damaged)>>

\* ------------------------------------------------------------- map files
\* The cluster lists that tile [s, e): sorted, contiguous, start < end.
RECURSIVE Tilings(_, _)
Tilings(s, e) ==
    IF s = e THEN {<<>>}
    ELSE UNION {{<<MapCluster(Domain(s, m), st)>> \o t : t \in Tilings(m, e)} :
                    m \in (s + 1)..e, st \in Stages}

\* The domains [s, e) with lo <= s < e <= hi.
Domains(lo, hi) == UNION {{Domain(s, e) : e \in (s + 1)..hi} : s \in lo..hi}

SubDomains(d) == Domains(d.start, d.end)

\* ------------------------------------------------------------------ Args
FB_SECTOR_SIZE == 2048
DefaultClusterLength == 128
DefaultBrutePasses == 2

\* The values of the u16 options sector_size and cluster_length, and of
\* brute_passes, that the model runs the tool with.
SectorSizes == {1, 2, FB_SECTOR_SIZE}
ClusterLengths == {1, 2, DefaultClusterLength}
BrutePassCounts == {1, DefaultBrutePasses}

Args ==
    [sector_size : SectorSizes, cluster_length : ClusterLengths,
     brute_passes : BrutePassCounts]

ArgsDefault ==
    [sector_size |-> FB_SECTOR_SIZE, cluster_length |-> DefaultClusterLength,
     brute_passes |-> DefaultBrutePasses]

\* No Recover exists: the MapFile and MapCluster methods are called directly.
RecoverIdle ==
    /\ config = ArgsDefault
    /\ sector_size = FB_SECTOR_SIZE
    /\ input_len = FB_SECTOR_SIZE
    /\ overflow_checks = TRUE
    /\ buf_capacity = 0
    /\ phase = "none"
    /\ is_finished = FALSE
    /\ untested = <<>>
    /\ level = 0

\* ------------------------------------------------------------------ Spec
Init ==
    /\ origin \in {"new", "file"}
    /\ \/ /\ origin = "new"
          /\ domain = MapFileNew.domain
          /\ map = MapFileNew.map
       \/ /\ origin = "file"
          /\ \/ /\ domain \in Domains(0, MaxSector)
                /\ map \in Tilings(domain.start, domain.end)
             \/ /\ domain = TestDefragDomain
                /\ map = TestDefragMap
    /\ pc = "run"
    /\ op = "none"
    /\ old_map = map
    /\ new_cluster = MapClusterDefault
    /\ stage = Untested
    /\ received = <<>>
    /\ recover_stage = Untested
    /\ cluster = MapClusterDefault
    /\ cluster_len = 1
    /\ clusters = <<>>
    /\ RecoverIdle

Update ==
    /\ pc = "run"
    /\ Len(map) < MaxClusters
    /\ \E d \in SubDomains(domain), st \in Stages :
          /\ new_cluster' = MapCluster(d, st)
          /\ map' = update(map, new_cluster')
    /\ op' = "update"
    /\ old_map' = map
    /\ UNCHANGED <<origin, domain, pc, stage, received, recover_stage,
                   cluster, cluster_len, clusters,
                   recover_vars>>

Defrag ==
    /\ pc = "run"
    /\ LET r == defrag(map, domain)
       IN  /\ map' = r.map
           /\ pc' = IF r.status = "ok" THEN "run" ELSE r.status
    /\ op' = "defrag"
    /\ old_map' = map
    /\ UNCHANGED <<origin, domain, new_cluster, stage, received,
                   recover_stage, cluster, cluster_len, clusters,
                   recover_vars>>

Next == Update \/ Defrag

Spec == Init /\ [][Next]_vars

\* ------------------------------------------------------------- SpecQuery
\* get_stage and get_clusters on any cluster list, in any order.
QueryClusters ==
    {MapCluster(Domain(s, s + 1), st) : s \in 0..(MaxQuerySector - 1), st \in Stages}
ClusterLists(n) == UNION {[1..k -> QueryClusters] : k \in 0..n}

InitQuery ==
    /\ origin = "file"
    /\ domain = Domain(0, MaxQuerySector)
    /\ map \in ClusterLists(MaxQueryLen)
    /\ pc = "run"
    /\ op = "none"
    /\ old_map = map
    /\ new_cluster = MapClusterDefault
    /\ stage = Untested
    /\ received = <<>>
    /\ recover_stage = Untested
    /\ cluster = MapClusterDefault
    /\ cluster_len = 1
    /\ clusters = <<>>
    /\ RecoverIdle

GetStage ==
    /\ pc = "run"
    /\ recover_stage' = get_stage(map)
    /\ op' = "get_stage"
    /\ old_map' = map
    /\ UNCHANGED <<origin, domain, map, pc, new_cluster, stage, received,
                   cluster, cluster_len, clusters,
                   recover_vars>>

GetClusters ==
    /\ pc = "run"
    /\ \E st \in Stages :
          /\ stage' = st
          /\ received' = get_clusters(map, st)
    /\ op' = "get_clusters"
    /\ old_map' = map
    /\ UNCHANGED <<origin, domain, map, pc, new_cluster, recover_stage,
                   cluster, cluster_len, clusters,
                   recover_vars>>

NextQuery == GetStage \/ GetClusters

SpecQuery == InitQuery /\ [][NextQuery]_vars

\* --------------------------------------------------------- SpecSubdivide
\* subdivide on any cluster with start < end and any cluster_len >= 1.
InitSubdivide ==
    /\ origin = "new"
    /\ domain = MapFileNew.domain
    /\ map = MapFileNew.map
    /\ pc = "run"
    /\ op = "none"
    /\ old_map = map
    /\ new_cluster = MapClusterDefault
    /\ stage = Untested
    /\ received = <<>>
    /\ recover_stage = Untested
    /\ cluster \in {MapCluster(d, st) : d \in Domains(0, MaxSubEnd), st \in Stages}
    /\ cluster_len \in 1..MaxGroupLen
    /\ clusters = <<>>
    /\ RecoverIdle

Subdivide ==
    /\ pc = "run"
    /\ clusters' = subdivide(cluster, cluster_len)
    /\ op' = "subdivide"
    /\ UNCHANGED <<origin, domain, map, pc, old_map, new_cluster, stage,
                   received, recover_stage, cluster, cluster_len,
                   recover_vars>>

NextSubdivide == Subdivide

SpecSubdivide == InitSubdivide /\ [][NextSubdivide]_vars

\* ----------------------------------------------------------- SpecRecover
\* a * b computed in u16: a build with overflow checks panics when the
\* product does not fit, a build without them keeps the low 16 bits.
MulU16(a, b, checks) ==
    IF a * b < 2^16 THEN [status |-> "ok", value |-> a * b]
    ELSE IF checks THEN [status |-> "panic", value |-> 0]
    ELSE [status |-> "ok", value |-> (a * b) % 2^16]

\* (self.config.sector_size * self.config.cluster_length) as usize
set_buf_capacity(cfg, checks) ==
    MulU16(cfg.sector_size, cfg.cluster_length, checks)

\* The loop of copy_untested: every cluster of cs subdivided by group_len,
\* appended in order.
RECURSIVE SubdivideAll(_, _, _)
SubdivideAll(cs, i, group_len) ==
    IF i > Len(cs) THEN <<>>
    ELSE subdivide(cs[i], group_len) \o SubdivideAll(cs, i + 1, group_len)

\* The list `untested` that copy_untested builds before it reaches todo!().
copy_untested(m, map_sector_size) ==
    SubdivideAll(get_clusters(m, Untested), 1, map_sector_size)

\* main after the map has been loaded: the options, the length of the input
\* (a multiple of the sector size) and the map, which is MapFile::new(
\* config.sector_size) when the map file does not parse and the parsed
\* MapFile otherwise.
InitRecover ==
    /\ config \in Args
    /\ overflow_checks \in BOOLEAN
    /\ input_len \in {config.sector_size * k : k \in 1..MaxSector}
    /\ origin \in {"new", "file"}
    /\ \/ /\ origin = "new"
          /\ sector_size = config.sector_size
          /\ domain = MapFileNew.domain
          /\ map = MapFileNew.map
       \/ /\ origin = "file"
          /\ sector_size \in SectorSizes
          /\ domain \in Domains(0, MaxSector)
          /\ map \in Tilings(domain.start, domain.end)
    /\ buf_capacity = 0
    /\ phase = "loaded"
    /\ is_finished = FALSE
    /\ untested = <<>>
    /\ level = 0
    /\ pc = "run"
    /\ op = "none"
    /\ old_map = map
    /\ new_cluster = MapClusterDefault
    /\ stage = Untested
    /\ received = <<>>
    /\ recover_stage = Untested
    /\ cluster = MapClusterDefault
    /\ cluster_len = 1
    /\ clusters = <<>>

\* Recover::new: stage = map.get_stage(), the buffer of one sector, then
\* set_buf_capacity.
RecoverNew ==
    /\ phase = "loaded"
    /\ pc = "run"
    /\ recover_stage' = get_stage(map)
    /\ LET r == set_buf_capacity(config, overflow_checks)
       IN  /\ buf_capacity' =
                 IF r.status = "ok" THEN r.value ELSE config.sector_size
           /\ pc' = IF r.status = "ok" THEN "run" ELSE "panic"
           /\ phase' = IF r.status = "ok" THEN "constructed" ELSE phase
    /\ op' = "new"
    /\ old_map' = map
    /\ UNCHANGED <<origin, domain, map, new_cluster, stage, received, cluster,
                   cluster_len, clusters, config, sector_size, input_len,
                   overflow_checks, is_finished, untested, level>>

\* Recover::run, arm Stage::Untested: copy_untested subdivides the untested
\* clusters and stops at todo!("Read and save data.").
CopyUntested ==
    /\ phase = "constructed"
    /\ pc = "run"
    /\ ~is_finished
    /\ get_stage(map) = Untested
    /\ untested' = copy_untested(map, sector_size)
    /\ pc' = "panic"
    /\ op' = "copy_untested"
    /\ old_map' = map
    /\ UNCHANGED <<origin, domain, map, new_cluster, stage, received,
                   recover_stage, cluster, cluster_len, clusters, config,
                   sector_size, input_len, overflow_checks, buf_capacity,
                   phase, is_finished, level>>

\* Recover::run, arm Stage::ForIsolation(level): copy_isolate is todo!().
CopyIsolate ==
    /\ phase = "constructed"
    /\ pc = "run"
    /\ ~is_finished
    /\ get_stage(map).tag = "ForIsolation"
    /\ level' = get_stage(map).level
    /\ pc' = "panic"
    /\ op' = "copy_isolate"
    /\ old_map' = map
    /\ UNCHANGED <<origin, domain, map, new_cluster, stage, received,
                   recover_stage, cluster, cluster_len, clusters, config,
                   sector_size, input_len, overflow_checks, buf_capacity,
                   phase, is_finished, untested>>

\* Recover::run, arm Stage::Damaged: is_finished = true and run returns.
RunFinished ==
    /\ phase = "constructed"
    /\ pc = "run"
    /\ ~is_finished
    /\ get_stage(map) = Damaged
    /\ is_finished' = TRUE
    /\ phase' = "returned"
    /\ op' = "run"
    /\ old_map' = map
    /\ UNCHANGED <<origin, domain, map, pc, new_cluster, stage, received,
                   recover_stage, cluster, cluster_len, clusters, config,
                   sector_size, input_len, overflow_checks, buf_capacity,
                   untested, level>>

NextRecover == RecoverNew \/ CopyUntested \/ CopyIsolate \/ RunFinished

SpecRecover == InitRecover /\ [][NextRecover]_vars

\* ------------------------------------------------- vocabulary of the claims
Sectors(d) == d.start..(d.end - 1)

\* The clusters of m that cover sector x.
Covering(m, x) ==
    {i \in DOMAIN m : m[i].domain.start <= x /\ x < m[i].domain.end}

\* The clusters of m partition dom: every cluster is a non-empty range inside
\* dom and every sector of dom belongs to exactly one cluster.
Tiles(m, dom) ==
    /\ \A i \in DOMAIN m :
          /\ m[i].domain.start < m[i].domain.end
          /\ dom.start <= m[i].domain.start
          /\ m[i].domain.end <= dom.end
    /\ \A x \in Sectors(dom) : Cardinality(Covering(m, x)) = 1

\* Sorted by start, contiguous, non-overlapping and spanning dom.
SortedTiling(m, dom) ==
    /\ Len(m) > 0
    /\ m[1].domain.start = dom.start
    /\ m[Len(m)].domain.end = dom.end
    /\ \A i \in DOMAIN m : m[i].domain.start < m[i].domain.end
    /\ \A i \in 1..(Len(m) - 1) : m[i].domain.end = m[i + 1].domain.start

\* The sectors covered by a cluster of stage st.
SectorsOfStage(m, st) ==
    UNION {Sectors(m[i].domain) : i \in {j \in DOMAIN m : m[j].stage = st}}

NoAdjacentSameStage(m) ==
    \A i \in 1..(Len(m) - 1) : m[i].stage # m[i + 1].stage

\* Untested before ForIsolation(0) before ForIsolation(1) ... before Damaged.
Precedence(st) ==
    CASE st.tag = "Untested" -> 0
      [] st.tag = "ForIsolation" -> 1 + st.level
      [] st.tag = "Damaged" -> 2 + MaxLevel

IsolationLevels(m) ==
    {m[i].stage.level : i \in {j \in DOMAIN m : m[j].stage.tag = "ForIsolation"}}

\* The summary stage as section 4.3 of the specification words it.
SummaryStage(m) ==
    IF \E i \in DOMAIN m : m[i].stage = Untested THEN Untested
    ELSE IF IsolationLevels(m) # {}
    THEN ForIsolation(CHOOSE n \in IsolationLevels(m) :
                          \A k \in IsolationLevels(m) : n <= k)
    ELSE Damaged

\* The indices of the clusters of m whose stage is st, and the k-th of them.
Matching(m, st) == {i \in DOMAIN m : m[i].stage = st}
KthMatching(m, st, k) ==
    CHOOSE i \in Matching(m, st) :
        Cardinality({j \in Matching(m, st) : j <= i}) = k

\* ------------------------------------------------------------------ claims

\* C1: after update(new_cluster) on a map that tiles its domain, every sector
\* of new_cluster.domain is covered by exactly one cluster and that cluster
\* carries new_cluster.stage.
C1_OverlayOverwrites ==
    (op = "update" /\ Tiles(old_map, domain)) =>
        \A x \in Sectors(new_cluster.domain) :
            /\ Cardinality(Covering(map, x)) = 1
            /\ \A i \in Covering(map, x) : map[i].stage = new_cluster.stage

\* C2: if the clusters partition the domain before update(new_cluster), they
\* partition the same domain after it.
C2_UpdatePreservesTiling ==
    (op = "update" /\ Tiles(old_map, domain)) => Tiles(map, domain)

\* C3: on a freshly constructed map, any sequence of update calls followed by
\* defrag returns a cluster list that is sorted, contiguous, non-overlapping
\* and spans the map's domain.
C3_UpdatesThenDefragTile ==
    (origin = "new" /\ op = "defrag") =>
        (pc = "run" /\ SortedTiling(map, domain))

\* C4: defrag on a map that tiles its domain returns the maximal-run
\* representation: a sorted tiling with the same stage on every sector and no
\* two adjacent clusters of the same stage; the map of test_defrag becomes the
\* five clusters the test expects.
C4_DefragMergesRuns ==
    (op = "defrag" /\ Tiles(old_map, domain)) =>
        /\ pc = "run"
        /\ SortedTiling(map, domain)
        /\ NoAdjacentSameStage(map)
        /\ \A st \in Stages : SectorsOfStage(map, st) = SectorsOfStage(old_map, st)
        /\ (old_map = TestDefragMap => map = TestDefragExpected)

\* C5: defrag is idempotent: once defrag has been applied to a map that tiles
\* its domain, applying it again returns the same cluster list.
C5_DefragIdempotent ==
    (op = "defrag" /\ Tiles(old_map, domain)) =>
        /\ pc = "run"
        /\ defrag(map, domain).status = "ok"
        /\ defrag(map, domain).map = map

\* C6: defrag preserves content: it returns, and for every stage the sectors
\* covered by clusters of that stage are the same before and after.
C6_DefragPreservesContent ==
    (op = "defrag" /\ Tiles(old_map, domain)) =>
        /\ pc = "run"
        /\ \A st \in Stages : \A x \in Sectors(domain) :
              (x \in SectorsOfStage(map, st)) <=> (x \in SectorsOfStage(old_map, st))

\* C7: get_stage returns Untested if a cluster is Untested, otherwise
\* ForIsolation of the lowest level present, otherwise Damaged, whatever the
\* order of the list, and leaves the map alone; pushing a cluster of strictly
\* lower stage makes get_stage return that stage.
C7_GetStagePrecedence ==
    op = "get_stage" =>
        /\ recover_stage = SummaryStage(old_map)
        /\ map = old_map
        /\ \A c \in QueryClusters :
              Precedence(c.stage) < Precedence(recover_stage) =>
                  get_stage(Append(map, c)) = c.stage

C7_Witness ==
    /\ op = "get_stage"
    /\ Len(old_map) = 3
    /\ [i \in 1..3 |-> old_map[i].stage] =
          <<ForIsolation(1), ForIsolation(0), Damaged>>
    /\ recover_stage = ForIsolation(0)

\* C8: get_clusters(stage) returns exactly the clusters whose stage equals
\* the argument, each once and in map order, and leaves the map unchanged.
C8_GetClustersFilters ==
    op = "get_clusters" =>
        /\ map = old_map
        /\ Len(received) = Cardinality(Matching(old_map, stage))
        /\ \A k \in DOMAIN received :
              received[k] = old_map[KthMatching(old_map, stage, k)]

C8_Witness ==
    /\ op = "get_clusters"
    /\ stage = ForIsolation(1)
    /\ Len(old_map) = 3
    /\ Len(received) = 2
    /\ received[1] # received[2]
    /\ \E i \in DOMAIN old_map : old_map[i].stage = ForIsolation(0)

\* C9: subdivide returns consecutive sub-ranges that start at the cluster's
\* start, each end where the next starts, end at the cluster's end, cover
\* exactly the cluster's sectors, hold cluster_len sectors each except
\* possibly the last, and carry the cluster's stage; [0,8) by 3 gives
\* [0,3), [3,6), [6,8).
C9_SubdivideCovers ==
    op = "subdivide" =>
        /\ Len(clusters) > 0
        /\ clusters[1].domain.start = cluster.domain.start
        /\ clusters[Len(clusters)].domain.end = cluster.domain.end
        /\ \A i \in 1..(Len(clusters) - 1) :
              /\ clusters[i].domain.end = clusters[i + 1].domain.start
              /\ DomainLen(clusters[i].domain) = cluster_len
        /\ UNION {Sectors(clusters[i].domain) : i \in DOMAIN clusters} =
              Sectors(cluster.domain)
        /\ \A i \in DOMAIN clusters : clusters[i].stage = cluster.stage
        /\ (cluster.domain = Domain(0, 8) /\ cluster_len = 3) =>
              [i \in DOMAIN clusters |-> clusters[i].domain] =
                  <<Domain(0, 3), Domain(3, 6), Domain(6, 8)>>

C9_Witness ==
    /\ op = "subdivide"
    /\ cluster.domain = Domain(0, 8)
    /\ cluster_len = 3
    /\ Len(clusters) = 3
    /\ clusters[3].domain = Domain(6, 8)

\* C10: subdivide never returns a zero-length sub-range: every returned
\* sub-range has start < end.
C10_SubdivideNoEmptyRange ==
    op = "subdivide" =>
        \A i \in DOMAIN clusters :
            clusters[i].domain.start < clusters[i].domain.end

\* Strictly ascending by domain.start.
SortedByStart(m) ==
    \A i \in 1..(Len(m) - 1) : m[i].domain.start < m[i + 1].domain.start

\* C14: after update(new_cluster) on a map sorted by domain.start, exactly
\* one cluster of the map equals new_cluster and the list is still sorted by
\* domain.start ascending.
C14_UpdateInsertsSorted ==
    (op = "update" /\ SortedByStart(old_map)) =>
        /\ Cardinality({i \in DOMAIN map : map[i] = new_cluster}) = 1
        /\ \A i \in 1..(Len(map) - 1) :
              map[i].domain.start <= map[i + 1].domain.start

\* C15: when new_cluster.domain is strictly interior to an existing cluster
\* c, after update the map holds the left remainder [c.start, new.start),
\* new_cluster and the right remainder [new.end, c.end) in that order, both
\* remainders with c's stage.
C15_InteriorOverlayFractures ==
    op = "update" =>
        \A i \in DOMAIN old_map :
            (/\ old_map[i].domain.start < new_cluster.domain.start
             /\ new_cluster.domain.end < old_map[i].domain.end) =>
                \E l, n, r \in DOMAIN map :
                    /\ l < n /\ n < r
                    /\ map[l] = MapCluster(Domain(old_map[i].domain.start,
                                                  new_cluster.domain.start),
                                           old_map[i].stage)
                    /\ map[n] = new_cluster
                    /\ map[r] = MapCluster(Domain(new_cluster.domain.end,
                                                  old_map[i].domain.end),
                                           old_map[i].stage)

\* C16: every existing cluster whose domain is contained in
\* new_cluster.domain is absent from the map after update (new_cluster
\* itself, which may equal it, is of course present).
C16_SubsumedDiscarded ==
    op = "update" =>
        \A i \in DOMAIN old_map :
            (/\ new_cluster.domain.start <= old_map[i].domain.start
             /\ old_map[i].domain.end <= new_cluster.domain.end
             /\ old_map[i] # new_cluster) =>
                \A j \in DOMAIN map : map[j] # old_map[i]

\* C17: every existing cluster that does not overlap new_cluster.domain is
\* in the map after update with its domain and stage unchanged.
C17_UpdateFrame ==
    op = "update" =>
        \A i \in DOMAIN old_map :
            (\/ old_map[i].domain.end <= new_cluster.domain.start
             \/ new_cluster.domain.end <= old_map[i].domain.start) =>
                \E j \in DOMAIN map : map[j] = old_map[i]

\* C18: from a map whose clusters all have start < end, any sequence of
\* update calls with non-empty domains inside the map's domain leaves every
\* cluster with start < end.
C18_NoDegenerateClusters ==
    (op \in {"none", "update"}) =>
        \A i \in DOMAIN map : map[i].domain.start < map[i].domain.end

\* C11: escalation: a pass of the recovery loop returns to the loop having
\* moved every range of the stage it worked on to a later stage (Untested to
\* ForIsolation, ForIsolation(level) to a higher level or, from brute_passes
\* on, to Damaged), so a range that keeps failing ends Damaged and is not
\* read again.
C11_EscalationTerminates ==
    /\ op = "copy_untested" =>
          /\ pc = "run"
          /\ \A i \in DOMAIN map : map[i].stage # Untested
    /\ op = "copy_isolate" =>
          /\ pc = "run"
          /\ \A i \in DOMAIN map :
                map[i].stage.tag = "ForIsolation" =>
                    /\ map[i].stage.level > level
                    /\ map[i].stage.level < config.brute_passes

\* C12: Recover::run never aborts, and returns only when the summary stage
\* of the map is Damaged.
C12_RunStopsOnlyWhenDamaged ==
    (phase \in {"constructed", "returned"} /\ (pc # "run" \/ phase = "returned")) =>
        (pc = "run" /\ is_finished /\ get_stage(map) = Damaged)

\* C13: when the map file does not parse, start-up goes on with a map of
\* exactly one Untested cluster whose domain is the map's domain and spans
\* the whole input, input_len / sector_size sectors from sector 0.
C13_FallbackMapSpansInput ==
    (phase = "loaded" /\ origin = "new") =>
        /\ pc = "run"
        /\ map = <<MapCluster(domain, Untested)>>
        /\ domain.start = 0
        /\ DomainLen(domain) * config.sector_size = input_len

IsNonEmpty(c) == c.domain.start < c.domain.end

\* C19: copy_untested subdivides every Untested cluster by the configured
\* cluster_length: its non-empty batches are those of
\* subdivide(cluster_length), whatever the sector size, and none spans more
\* than cluster_length sectors.
C19_BulkGroupIsClusterLength ==
    op = "copy_untested" =>
        /\ SelectSeq(untested, IsNonEmpty) =
              SelectSeq(SubdivideAll(get_clusters(old_map, Untested), 1,
                                     config.cluster_length), IsNonEmpty)
        /\ \A i \in DOMAIN untested :
              DomainLen(untested[i].domain) <= config.cluster_length

\* C20: after Recover::new, buf_capacity is the exact product
\* sector_size * cluster_length; the multiplication neither aborts nor wraps.
C20_BufCapacityIsProduct ==
    op = "new" =>
        /\ pc = "run"
        /\ buf_capacity = config.sector_size * config.cluster_length

\* C21: defrag on a map that tiles its domain, whether the domain starts at
\* 0 or not, finds a cluster at every lookup it makes, stops at domain.end
\* and returns: it neither panics nor loops for ever.
C21_DefragReturns ==
    (op = "defrag" /\ Tiles(old_map, domain)) => pc = "run"
====
